---- MODULE Spec2Model ----
(***************************************************************************)
(* A model of generate_icon.py: a script that draws a strawberry icon on   *)
(* a 1024x1024 RGBA canvas with Pillow and saves it as a PNG file.         *)
(*                                                                         *)
(* Floating-point values are modelled in fixed point with Q units per 1.0  *)
(* (each multiplication rounds to the nearest unit, as a float operation   *)
(* rounds to the nearest representable value).  Angles stay in degrees:    *)
(* Sin(deg) stands for math.sin(math.radians(deg)).  The canvas is         *)
(* observed at the pixels of ProbeSeq; Pillow truncates the coordinates    *)
(* it is given to whole pixels before it rasterizes a shape.               *)
(***************************************************************************)
EXTENDS Integers, Sequences, FiniteSets

\* ------------------------------------------------------------ bounds
\* How many times the script is invoked, one process after the other.
MaxRuns == 2

\* ------------------------------------------------------------ constants
SIZE == 1024

Q == 1000

strawberry_color == <<233, 30, 99, 255>>

leaf_color == <<76, 175, 80, 255>>

seed_color == <<255, 255, 255, 255>>

background_color == <<255, 248, 225, 255>>

cx == 54

cy == 56

base_rx == 26

base_ry == 28

DEGREES == 360

seed_positions ==
  << <<44, 48>>, <<54, 43>>, <<64, 48>>, <<48, 58>>,
     <<60, 58>>, <<54, 68>>, <<42, 64>>, <<66, 64>> >>

output_path == "C:\\Users\\Y\\Documents\\ichigo_apple\\Ichigo\\Resources\\AppIcon.png"

\* The divisor of SCALE = SIZE / 108.0 in the script.
LOGICAL == 108

\* The values of that divisor explored by SpecLogical.
LogicalChoices == {54, 96, 108, 216}

\* The pixels at which the canvas is observed, in row-major order.
ProbeSeq ==
  << <<0, 0>>, <<426, 199>>, <<597, 199>>, <<512, 237>>, <<505, 270>>,
     <<493, 271>>, <<654, 331>>, <<512, 407>>, <<417, 455>>,
     <<512, 530>>, <<512, 531>>, <<512, 532>>, <<711, 568>>,
     <<512, 644>>, <<529, 668>>, <<1023, 1023>> >>

Probes == {ProbeSeq[i] : i \in 1..Len(ProbeSeq)}

NoImage == [size |-> <<0, 0>>, mode |-> "none", px |-> [p \in Probes |-> <<0, 0, 0, 0>>]]

NoFile == [format |-> "none", size |-> <<0, 0>>, data |-> <<>>]

VARIABLES
  pc,        \* the statement the process is at
  run,       \* which invocation of the script this is
  logical,   \* the divisor of SCALE (108.0)
  img,       \* the canvas
  deg,       \* loop variable of the outline loop (-1: not yet bound)
  factor,    \* module-level variable factor
  x,         \* module-level variable x
  y,         \* module-level variable y
  points,    \* the outline, scaled
  seedIdx,   \* how many entries of seed_positions the seed loop has consumed
  fills,     \* history: the fill operations of this run and the canvas after each
  prevFills, \* history: fills of the previous run
  file,      \* the content at output_path
  prevFile,  \* history: the content at output_path when this run started
  saves,     \* history: how many times this run called img.save
  stdout     \* what this run printed

vars == <<pc, run, logical, img, deg, factor, x, y, points, seedIdx,
          fills, prevFills, file, prevFile, saves, stdout>>

\* ------------------------------------------------------------ arithmetic
\* Rounding division of a by b (b > 0), half up.
RoundDiv(a, b) == (2 * a + b) \div (2 * b)

\* Product of two fixed-point values.
FMul(a, b) == RoundDiv(a * b, Q)

SinTab ==
  << 0, 17, 35, 52, 70, 87, 105, 122, 139, 156, 174, 191, 208,
     225, 242, 259, 276, 292, 309, 326, 342, 358, 375, 391, 407, 423,
     438, 454, 469, 485, 500, 515, 530, 545, 559, 574, 588, 602, 616,
     629, 643, 656, 669, 682, 695, 707, 719, 731, 743, 755, 766, 777,
     788, 799, 809, 819, 829, 839, 848, 857, 866, 875, 883, 891, 899,
     906, 914, 921, 927, 934, 940, 946, 951, 956, 961, 966, 970, 974,
     978, 982, 985, 988, 990, 993, 995, 996, 998, 999, 999, 1000, 1000 >>

\* math.sin(math.radians(d)) for a whole number of degrees d in 0..359.
Sin(d) ==
  IF d <= 90 THEN SinTab[d + 1]
  ELSE IF d <= 180 THEN SinTab[180 - d + 1]
  ELSE IF d <= 270 THEN -SinTab[d - 180 + 1]
  ELSE -SinTab[360 - d + 1]

\* math.cos(math.radians(d)).
Cos(d) == Sin((d + 90) % 360)

\* SCALE = SIZE / 108.0, kept as the fraction SCALE[1] / SCALE[2].
SCALE == <<SIZE, logical>>

\* v * SCALE for a fixed-point v.
TimesScale(v) == RoundDiv(v * SCALE[1], SCALE[2])

scaled(px, py) == <<TimesScale(px), TimesScale(py)>>

\* The (int) conversion Pillow applies to a coordinate (all are >= 0).
Trunc(v) == v \div Q

TruncPoint(pt) == <<Trunc(pt[1]), Trunc(pt[2])>>

\* ------------------------------------------------------------ geometry
\* Faulty variant: the "1 +" of the taper formula left out.
FactorMissingOne(d) ==
  IF Sin(d) < 0
    THEN RoundDiv(7 * Q, 10) + FMul(RoundDiv(3 * Q, 10), Sin(d))
    ELSE Q

\* Faulty variant: the taper applied to the lower half instead of the upper half.
FactorLowerHalf(d) ==
  IF Sin(d) > 0
    THEN RoundDiv(7 * Q, 10) + FMul(RoundDiv(3 * Q, 10), Q + Sin(d))
    ELSE Q

\* The horizontal taper factor of the outline at d degrees.
Factor(d) ==
  IF Sin(d) < 0
    THEN RoundDiv(7 * Q, 10) + FMul(RoundDiv(3 * Q, 10), Q + Sin(d))
    ELSE Q

\* x = cx + base_rx * factor * math.cos(t), with factor already computed.
OutlineX(f, d) == cx * Q + FMul(base_rx * f, Cos(d))

\* y = cy + base_ry * math.sin(t).
OutlineY(d) == cy * Q + base_ry * Sin(d)

\* The arguments of the scaled() calls that build left_leaf.
LeftLeafPoints == << <<54, 29>>, <<46, 18>>, <<40, 20>>, <<47, 25>>, <<51, 29>> >>

\* Faulty variant: one vertex of the right leaf mistyped.
RightLeafPointsTypo == << <<54, 29>>, <<62, 18>>, <<68, 20>>, <<60, 25>>, <<57, 29>> >>

\* The arguments of the scaled() calls that build right_leaf.
RightLeafPoints == << <<54, 29>>, <<62, 18>>, <<68, 20>>, <<61, 25>>, <<57, 29>> >>

left_leaf ==
  [i \in 1..Len(LeftLeafPoints) |->
     scaled(LeftLeafPoints[i][1] * Q, LeftLeafPoints[i][2] * Q)]

right_leaf ==
  [i \in 1..Len(RightLeafPoints) |->
     scaled(RightLeafPoints[i][1] * Q, RightLeafPoints[i][2] * Q)]

\* The box of the stem rectangle: [x0, y0, x1, y1].
stem_box ==
  << scaled(53 * Q, 23 * Q)[1], scaled(53 * Q, 23 * Q)[2],
     scaled(55 * Q, 29 * Q)[1], scaled(55 * Q, 29 * Q)[2] >>

seed_rx == TimesScale(2 * Q)

seed_ry == TimesScale(RoundDiv(28 * Q, 10))

\* The centre of the k-th seed in pixels: sx * SCALE, sy * SCALE.
SeedCentre(k) ==
  <<TimesScale(seed_positions[k][1] * Q), TimesScale(seed_positions[k][2] * Q)>>

\* The box of the k-th seed ellipse: [x - seed_rx, y - seed_ry, x + seed_rx, y + seed_ry].
SeedBox(k) ==
  << SeedCentre(k)[1] - seed_rx, SeedCentre(k)[2] - seed_ry,
     SeedCentre(k)[1] + seed_rx, SeedCentre(k)[2] + seed_ry >>

\* ------------------------------------------------------------ rasterization
\* Does the edge a-b of a polygon cross the ray from p towards +x ?
Crosses(a, b, p) ==
  /\ (a[2] > p[2]) # (b[2] > p[2])
  /\ IF b[2] > a[2]
       THEN (p[1] - a[1]) * (b[2] - a[2]) < (p[2] - a[2]) * (b[1] - a[1])
       ELSE (p[1] - a[1]) * (b[2] - a[2]) > (p[2] - a[2]) * (b[1] - a[1])

\* Even-odd rule on the polygon with vertices TruncPoint(pts[i]), implicitly closed.
InPolygon(pts, p) ==
  LET n == Len(pts)
      hits == {i \in 1..n : Crosses(TruncPoint(pts[i]), TruncPoint(pts[(i % n) + 1]), p)}
  IN  Cardinality(hits) % 2 = 1

PolygonPixels(pts) == {p \in Probes : InPolygon(pts, p)}

\* The pixels of the rectangle with corners (box[1], box[2]) and (box[3], box[4]).
RectanglePixels(box) ==
  {p \in Probes : /\ Trunc(box[1]) <= p[1] /\ p[1] <= Trunc(box[3])
                  /\ Trunc(box[2]) <= p[2] /\ p[2] <= Trunc(box[4])}

\* The pixels of the ellipse inscribed in the box.
EllipsePixels(box) ==
  LET x0 == Trunc(box[1])
      y0 == Trunc(box[2])
      x1 == Trunc(box[3])
      y1 == Trunc(box[4])
      w  == x1 - x0
      h  == y1 - y0
  IN  {p \in Probes :
         /\ x0 <= p[1] /\ p[1] <= x1
         /\ y0 <= p[2] /\ p[2] <= y1
         /\ (2 * p[1] - (x0 + x1)) * (2 * p[1] - (x0 + x1)) * h * h
              + (2 * p[2] - (y0 + y1)) * (2 * p[2] - (y0 + y1)) * w * w
            <= w * w * h * h}

\* Faulty variant: the canvas sized by the logical space.
ImageNewLogical(size, color) ==
  [size |-> <<logical, logical>>, mode |-> "RGBA", px |-> [p \in Probes |-> color]]

\* Image.new('RGBA', size, color).
ImageNew(size, color) ==
  [size |-> size, mode |-> "RGBA", px |-> [p \in Probes |-> color]]

\* Faulty variant: a fill that paints only where nothing was drawn yet.
FillUnder(im, covered, color) ==
  [im EXCEPT !.px = [p \in Probes |->
     IF p \in covered /\ im.px[p] = background_color THEN color ELSE im.px[p]]]

\* A fill: every covered pixel takes the colour, the others keep theirs.
Fill(im, covered, color) ==
  [im EXCEPT !.px = [p \in Probes |-> IF p \in covered THEN color ELSE im.px[p]]]

\* ------------------------------------------------------------ PNG
\* Faulty variant: an encoder that stamps the file with the invocation.
EncodeStamped(im) ==
  [format |-> "PNG", size |-> im.size,
   data |-> [i \in 1..Len(ProbeSeq) |-> im.px[ProbeSeq[i]]] \o <<run>>]

\* img.save(..., 'PNG'): header and the pixels in row-major order.
Encode(im) ==
  [format |-> "PNG", size |-> im.size,
   data |-> [i \in 1..Len(ProbeSeq) |-> im.px[ProbeSeq[i]]]]

\* The pixel at p of a complete PNG file.
Decode(f, p) ==
  f.data[CHOOSE i \in 1..Len(ProbeSeq) : ProbeSeq[i] = p]

\* What a failed write can leave at output_path: the old content or a cut file.
FailedWrites(f, im) ==
  {f} \cup {[Encode(im) EXCEPT !.data = SubSeq(@, 1, k)] : k \in 0..(Len(ProbeSeq) - 1)}

\* An entry of the history of fills: what was drawn, with which shape, and the canvas after it.
Logged(op, shape, im) == [op |-> op, shape |-> shape, img |-> im]

\* ------------------------------------------------------------ the script
\* A process that has just started: nothing is bound, nothing was drawn or printed.
Fresh ==
  /\ pc = "new"
  /\ img = NoImage
  /\ deg = -1
  /\ factor = 0
  /\ x = 0
  /\ y = 0
  /\ points = <<>>
  /\ seedIdx = 0
  /\ fills = <<>>
  /\ saves = 0
  /\ stdout = <<>>

Init ==
  /\ Fresh
  /\ run = 1
  /\ logical = LOGICAL
  /\ prevFills = <<>>
  /\ file = NoFile
  /\ prevFile = NoFile

\* The script with any of LogicalChoices as the divisor of SCALE.
InitLogical ==
  /\ Fresh
  /\ run = 1
  /\ logical \in LogicalChoices
  /\ prevFills = <<>>
  /\ file = NoFile
  /\ prevFile = NoFile

\* img = Image.new('RGBA', (SIZE, SIZE), (255, 248, 225, 255))
NewImage ==
  /\ pc = "new"
  /\ img' = ImageNew(<<SIZE, SIZE>>, background_color)
  /\ fills' = Append(fills, Logged([kind |-> "background", at |-> <<>>], <<>>, img'))
  /\ pc' = "outline"
  /\ UNCHANGED <<run, logical, deg, factor, x, y, points, seedIdx,
                 prevFills, file, prevFile, saves, stdout>>

\* One iteration of: for deg in range(360)
OutlineStep ==
  /\ pc = "outline"
  /\ deg + 1 < DEGREES
  /\ deg' = deg + 1
  /\ factor' = Factor(deg')
  /\ x' = OutlineX(factor', deg')
  /\ y' = OutlineY(deg')
  /\ points' = Append(points, scaled(x', y'))
  /\ pc' = IF deg' = DEGREES - 1 THEN "body" ELSE "outline"
  /\ UNCHANGED <<run, logical, img, seedIdx, fills, prevFills, file, prevFile,
                 saves, stdout>>

\* Faulty variant: the body drawn as an outline (outline= for fill=): its interior is not painted.
DrawBodyOutlineOnly ==
  /\ pc = "body"
  /\ img' = Fill(img, {}, strawberry_color)
  /\ fills' = Append(fills, Logged([kind |-> "body", at |-> <<>>], points, img'))
  /\ pc' = "left_leaf"
  /\ UNCHANGED <<run, logical, deg, factor, x, y, points, seedIdx,
                 prevFills, file, prevFile, saves, stdout>>

\* Faulty variant: the leaves are never drawn.
DrawBodySkipLeaves ==
  /\ pc = "body"
  /\ img' = Fill(img, PolygonPixels(points), strawberry_color)
  /\ fills' = Append(fills, Logged([kind |-> "body", at |-> <<>>], points, img'))
  /\ pc' = "stem"
  /\ UNCHANGED <<run, logical, deg, factor, x, y, points, seedIdx,
                 prevFills, file, prevFile, saves, stdout>>

\* draw.polygon(points, fill=strawberry_color)
DrawBody ==
  /\ pc = "body"
  /\ img' = Fill(img, PolygonPixels(points), strawberry_color)
  /\ fills' = Append(fills, Logged([kind |-> "body", at |-> <<>>], points, img'))
  /\ pc' = "left_leaf"
  /\ UNCHANGED <<run, logical, deg, factor, x, y, points, seedIdx,
                 prevFills, file, prevFile, saves, stdout>>

\* draw.polygon(left_leaf, fill=leaf_color)
DrawLeftLeaf ==
  /\ pc = "left_leaf"
  /\ img' = Fill(img, PolygonPixels(left_leaf), leaf_color)
  /\ fills' = Append(fills, Logged([kind |-> "left_leaf", at |-> <<>>], left_leaf, img'))
  /\ pc' = "right_leaf"
  /\ UNCHANGED <<run, logical, deg, factor, x, y, points, seedIdx,
                 prevFills, file, prevFile, saves, stdout>>

\* draw.polygon(right_leaf, fill=leaf_color)
DrawRightLeaf ==
  /\ pc = "right_leaf"
  /\ img' = Fill(img, PolygonPixels(right_leaf), leaf_color)
  /\ fills' = Append(fills, Logged([kind |-> "right_leaf", at |-> <<>>], right_leaf, img'))
  /\ pc' = "stem"
  /\ UNCHANGED <<run, logical, deg, factor, x, y, points, seedIdx,
                 prevFills, file, prevFile, saves, stdout>>

\* draw.rectangle([...], fill=leaf_color)
DrawStem ==
  /\ pc = "stem"
  /\ img' = Fill(img, RectanglePixels(stem_box), leaf_color)
  /\ fills' = Append(fills, Logged([kind |-> "stem", at |-> <<>>], stem_box, img'))
  /\ pc' = "seeds"
  /\ UNCHANGED <<run, logical, deg, factor, x, y, points, seedIdx,
                 prevFills, file, prevFile, saves, stdout>>

\* Faulty variant: the seed loop stops one entry short of the list.
DrawSeedShort ==
  /\ pc = "seeds"
  /\ seedIdx < Len(seed_positions)
  /\ seedIdx' = seedIdx + 1
  /\ x' = SeedCentre(seedIdx')[1]
  /\ y' = SeedCentre(seedIdx')[2]
  /\ img' = Fill(img, EllipsePixels(<<x' - seed_rx, y' - seed_ry,
                                      x' + seed_rx, y' + seed_ry>>), seed_color)
  /\ fills' = Append(fills, Logged([kind |-> "seed", at |-> seed_positions[seedIdx']],
                                   <<x' - seed_rx, y' - seed_ry, x' + seed_rx, y' + seed_ry>>,
                                   img'))
  /\ pc' = IF seedIdx' = Len(seed_positions) - 1 THEN "save" ELSE "seeds"
  /\ UNCHANGED <<run, logical, deg, factor, points, prevFills, file, prevFile,
                 saves, stdout>>

\* One iteration of: for sx, sy in seed_positions
DrawSeed ==
  /\ pc = "seeds"
  /\ seedIdx < Len(seed_positions)
  /\ seedIdx' = seedIdx + 1
  /\ x' = SeedCentre(seedIdx')[1]
  /\ y' = SeedCentre(seedIdx')[2]
  /\ img' = Fill(img, EllipsePixels(<<x' - seed_rx, y' - seed_ry,
                                      x' + seed_rx, y' + seed_ry>>), seed_color)
  /\ fills' = Append(fills, Logged([kind |-> "seed", at |-> seed_positions[seedIdx']],
                                   <<x' - seed_rx, y' - seed_ry, x' + seed_rx, y' + seed_ry>>,
                                   img'))
  /\ pc' = IF seedIdx' = Len(seed_positions) THEN "save" ELSE "seeds"
  /\ UNCHANGED <<run, logical, deg, factor, points, prevFills, file, prevFile,
                 saves, stdout>>

\* img.save(output_path, 'PNG') returns: the file is replaced by the encoded canvas.
SaveOk ==
  /\ pc = "save"
  /\ file' = Encode(img)
  /\ saves' = saves + 1
  /\ pc' = "print"
  /\ UNCHANGED <<run, logical, img, deg, factor, x, y, points, seedIdx,
                 fills, prevFills, prevFile, stdout>>

\* Faulty variant: the I/O error is swallowed and the script goes on.
SaveFailSwallowed ==
  /\ pc = "save"
  /\ file' \in FailedWrites(file, img)
  /\ saves' = saves + 1
  /\ pc' = "print"
  /\ UNCHANGED <<run, logical, img, deg, factor, x, y, points, seedIdx,
                 fills, prevFills, prevFile, stdout>>

\* img.save(output_path, 'PNG') raises: nothing catches it, the process ends.
SaveFail ==
  /\ pc = "save"
  /\ file' \in FailedWrites(file, img)
  /\ saves' = saves + 1
  /\ pc' = "failed"
  /\ UNCHANGED <<run, logical, img, deg, factor, x, y, points, seedIdx,
                 fills, prevFills, prevFile, stdout>>

\* print(f'Icon saved to {output_path}')
PrintSaved ==
  /\ pc = "print"
  /\ stdout' = Append(stdout, <<"Icon saved to ", output_path>>)
  /\ pc' = "done"
  /\ UNCHANGED <<run, logical, img, deg, factor, x, y, points, seedIdx,
                 fills, prevFills, file, prevFile, saves>>

\* The script is invoked again after a completed run: a new process, the same disk.
Rerun ==
  /\ pc = "done"
  /\ run < MaxRuns
  /\ run' = run + 1
  /\ prevFills' = fills
  /\ prevFile' = file
  /\ pc' = "new"
  /\ img' = NoImage
  /\ deg' = -1
  /\ factor' = 0
  /\ x' = 0
  /\ y' = 0
  /\ points' = <<>>
  /\ seedIdx' = 0
  /\ fills' = <<>>
  /\ saves' = 0
  /\ stdout' = <<>>
  /\ UNCHANGED <<logical, file>>

Next ==
  \/ NewImage
  \/ OutlineStep
  \/ DrawBody
  \/ DrawLeftLeaf
  \/ DrawRightLeaf
  \/ DrawStem
  \/ DrawSeed
  \/ SaveOk
  \/ SaveFail
  \/ PrintSaved
  \/ Rerun

Spec == Init /\ [][Next]_vars

SpecLogical == InitLogical /\ [][Next]_vars

\* ------------------------------------------------------------ properties
Abs(v) == IF v < 0 THEN -v ELSE v

\* The statements after the last fill.
AfterFills == {"save", "print", "done", "failed"}

\* The fill operations of a run, in the order the script lists them.
ExpectedOrder ==
  << [kind |-> "background", at |-> <<>>],
     [kind |-> "body", at |-> <<>>],
     [kind |-> "left_leaf", at |-> <<>>],
     [kind |-> "right_leaf", at |-> <<>>],
     [kind |-> "stem", at |-> <<>>],
     [kind |-> "seed", at |-> <<44, 48>>],
     [kind |-> "seed", at |-> <<54, 43>>],
     [kind |-> "seed", at |-> <<64, 48>>],
     [kind |-> "seed", at |-> <<48, 58>>],
     [kind |-> "seed", at |-> <<60, 58>>],
     [kind |-> "seed", at |-> <<54, 68>>],
     [kind |-> "seed", at |-> <<42, 64>>],
     [kind |-> "seed", at |-> <<66, 64>>] >>

FillOps == [i \in 1..Len(fills) |-> fills[i].op]

\* C1: the fills of a run happen in the order background, body, left leaf,
\* right leaf, stem, then the eight seeds in the order of seed_positions, each
\* exactly once: at every moment the fills done so far are the first so-many
\* entries of that list, and all thirteen are done once the seed loop is over.
C1_FillOrder ==
  /\ Len(fills) <= Len(ExpectedOrder)
  /\ FillOps = SubSeq(ExpectedOrder, 1, Len(fills))
  /\ pc \in AfterFills => Len(fills) = Len(ExpectedOrder)

C1_Witness == pc = "done" /\ Len(fills) = 13 /\ fills[13].op.at = <<66, 64>>

\* The pixels of the i-th shape in draw order (the body first, the seeds last).
ShapePixels(i) ==
  IF i = 1 THEN PolygonPixels(points)
  ELSE IF i = 2 THEN PolygonPixels(left_leaf)
  ELSE IF i = 3 THEN PolygonPixels(right_leaf)
  ELSE IF i = 4 THEN RectanglePixels(stem_box)
  ELSE EllipsePixels(SeedBox(i - 4))

ShapeColor(i) ==
  IF i = 1 THEN <<233, 30, 99, 255>>
  ELSE IF i <= 4 THEN <<76, 175, 80, 255>>
  ELSE <<255, 255, 255, 255>>

Covering(p) == {i \in 1..12 : p \in ShapePixels(i)}

Last(S) == CHOOSE i \in S : \A j \in S : j <= i

\* C2: in the final canvas a pixel has the colour of the last-drawn shape that
\* covers it, or the background colour if no shape covers it; in particular a
\* pixel covered by the body and by a seed is white.
C2_Occlusion ==
  pc \in AfterFills =>
    \A p \in Probes :
      /\ img.px[p] = IF Covering(p) = {} THEN <<255, 248, 225, 255>>
                     ELSE ShapeColor(Last(Covering(p)))
      /\ (1 \in Covering(p) /\ Covering(p) \cap (5..12) # {})
           => img.px[p] = <<255, 255, 255, 255>>

C2_Witness ==
  /\ pc = "done"
  /\ \E p \in Probes : 1 \in Covering(p) /\ Covering(p) \cap (5..12) # {}
  /\ \E p \in Probes : Covering(p) = {1, 2, 4}
  /\ \E p \in Probes : Covering(p) = {}

\* C3: a failed write ends the run: nothing was printed, the write was tried
\* once and no step follows; a confirmation is printed only by a run whose
\* single write completed, it is the one line naming output_path, and the file
\* then holds the encoded canvas.
C3_WriteFailure ==
  /\ saves <= 1
  /\ pc = "failed" => stdout = <<>> /\ saves = 1 /\ ~ ENABLED Next
  /\ pc = "done" <=> stdout # <<>>
  /\ stdout # <<>> =>
       /\ stdout = << <<"Icon saved to ", output_path>> >>
       /\ saves = 1
       /\ file = Encode(img)

C3_Witness == pc = "failed" /\ saves = 1 /\ file.format = "PNG" /\ Len(file.data) = 3

\* C4: the file is written once per run, only after all thirteen fills (the
\* background, the body, two leaves, the stem, eight seeds); the canvas does
\* not change once the write step is reached, and the written image is the
\* canvas as the last seed fill left it.
C4_WriteAfterFills ==
  /\ saves = (IF pc \in {"print", "done", "failed"} THEN 1 ELSE 0)
  /\ pc \in AfterFills =>
       /\ Len(fills) = 13
       /\ {fills[i].op.kind : i \in 2..5} = {"body", "left_leaf", "right_leaf", "stem"}
       /\ \A i \in 6..13 : fills[i].op.kind = "seed"
       /\ img = fills[13].img
  /\ pc \in {"print", "done"} =>
       /\ file.size = fills[13].img.size
       /\ \A p \in Probes : Decode(file, p) = fills[13].img.px[p]

C4_Witness == pc = "print" /\ saves = 1 /\ file.format = "PNG" /\ seedIdx = 8

\* The pixel the scaled centre of the body falls in.
CentrePixel == TruncPoint(scaled(cx * Q, cy * Q))

\* C5: in the written file pixel (0,0) has the background colour, and the
\* pixels at the scaled centre of the body, (512,530), (512,531) and (512,532),
\* have the body colour: each is inside the body polygon and outside both
\* leaves, the stem and every seed.
C5_EndToEnd ==
  pc \in {"print", "done"} =>
    /\ Decode(file, <<0, 0>>) = <<255, 248, 225, 255>>
    /\ CentrePixel = <<512, 530>>
    /\ \A p \in {CentrePixel, <<512, 531>>, <<512, 532>>} :
         /\ Decode(file, p) = <<233, 30, 99, 255>>
         /\ Covering(p) = {1}

C5_Witness == pc = "done" /\ run = 1 /\ Decode(file, <<512, 532>>) = <<233, 30, 99, 255>>

\* C6: whatever the divisor of SCALE, the canvas is 1024x1024 from its
\* creation on, and so is the written file.
C6_Dimensions ==
  /\ pc # "new" => img.size = <<1024, 1024>> /\ img.mode = "RGBA"
  /\ pc \in {"print", "done"} => file.size = <<1024, 1024>>

C6_Witness == pc = "done" /\ logical = 216 /\ file.size = <<1024, 1024>>

C8_Outline ==
  /\ Len(points) = deg + 1
  /\ pc \notin {"new", "outline"} => Len(points) = 360
  /\ \A i \in 1..Len(points) :
       LET lx == OutlineX(Factor(i - 1), i - 1)
           ly == OutlineY(i - 1)
       IN  /\ points[i] = scaled(lx, ly)
           /\ Abs(lx - 54 * Q) <= 26 * Q
           /\ Abs(ly - 56 * Q) <= 28 * Q
  /\ (pc \in {"outline", "body"} /\ deg >= 0) =>
       /\ Abs(x - 54 * Q) <= 26 * Q
       /\ Abs(y - 56 * Q) <= 28 * Q
       /\ points[deg + 1] = scaled(x, y)

C8_Witness ==
  /\ pc = "body"
  /\ Len(points) = 360
  /\ points[1] = scaled(80 * Q, 56 * Q)
  /\ points[91] = scaled(54 * Q, 84 * Q)

C10_LeafMirror ==
  /\ Len(LeftLeafPoints) = 5 /\ Len(RightLeafPoints) = 5
  /\ \A i \in 1..5 :
       RightLeafPoints[i] = <<108 - LeftLeafPoints[i][1], LeftLeafPoints[i][2]>>
  /\ Len(fills) >= 4 =>
       /\ Len(fills[3].shape) = 5 /\ Len(fills[4].shape) = 5
       /\ \A i \in 1..5 :
            /\ fills[3].shape[i] = scaled(LeftLeafPoints[i][1] * Q, LeftLeafPoints[i][2] * Q)
            /\ fills[4].shape[i] =
                 scaled((108 - LeftLeafPoints[i][1]) * Q, LeftLeafPoints[i][2] * Q)

C10_Witness ==
  /\ pc = "stem"
  /\ fills[3].op.kind = "left_leaf"
  /\ fills[4].op.kind = "right_leaf"
  /\ fills[3].shape # fills[4].shape

====
